---------------------------- MODULE Spec2Model ----------------------------
(***************************************************************************)
(* A model of the log segmentation and aggregation engine of              *)
(* pma2020-analytics2: analytics/event.py (Event), analytics/logparser.py *)
(* (Logparser.capture_events, ParserHelper) and analytics/instance.py     *)
(* (Instance.summarize_log and the trackers it calls, LogParseState).     *)
(*                                                                         *)
(* Representation.                                                         *)
(*  - A log row is the Python list [time, code, xpath, value]; here the   *)
(*    tuple <<time, code, xpath, value>>, so Python's row[0] is row[1].   *)
(*  - A timestamp is kept as its offset in milliseconds from a fixed      *)
(*    13-digit epoch: the engine only subtracts and compares timestamps   *)
(*    and adds 1 to one.                                                   *)
(*  - A string that the code takes apart (an xpath, a prompt name) is a   *)
(*    sequence of tokens: "/", "[1]" and name tokens without "/".         *)
(*  - None is the empty sequence and an object reference e is <<e>>.      *)
(*  - Event.line is kept in half lines (twice the code's value), so that  *)
(*    the synthetic pause's line, x + 0.5, is the odd number 2x + 1.      *)
(*  - A raised exception ends the run: err holds its name.                *)
(***************************************************************************)
EXTENDS Integers, Sequences, FiniteSets, TLC

VARIABLES
    COUNT,              \* Instance.COUNT, the class attribute
    txt,                \* len(self.txt): the number of log files found
    lines,              \* the rows the reader has yielded so far, each as
                        \* the loop leaves it (row[0] of a valid row an int)
    version,            \* Logparser.version
    input,              \* the valid rows handed to parse_next_row so far
    lineno,             \* i of enumerate(reader) for the next row
    cur_event,          \* ParserHelper.cur_event
    last_resume,        \* ParserHelper.last_resume
    prev_non_relation,  \* ParserHelper.prev_non_relation
    events,             \* the list `events` of Logparser.capture_events
    warnings,           \* the logging.warning calls made so far, in order
    err,                \* "none", or the exception that ended the run
    pc,                 \* "idle" before any Instance; "skipped" by
                        \* summarize_log; "parsing"; "raised" in the loop of
                        \* capture_events; "finalized"
    n_seen,             \* number of events the summarize_log loop has taken
    inst,               \* the log-derived fields of the Instance
    state               \* the LogParseState of summarize_log

vars == <<COUNT, txt, lines, version, input, lineno, cur_event, last_resume, prev_non_relation, events,
          warnings, err, pc, n_seen, inst, state>>

-----------------------------------------------------------------------------
(* Bounds of the model *)

MaxRows == 4
MaxScreenRows == 4
MaxBreakRows == 5
MaxValueRows == 3
MaxLines == 4
MaxSplitRows == 4
MaxInstances == 3
MaxBatchRows == 3
MaxCopyRows == 3
MaxLeaveRows == 4
MaxRepairRows == 4
MaxPauseRows == 5
MaxResumeRows == 4
MaxStageRows == 3

(* Program constants *)

TWO_HR == 7200000
THIRTY_MIN == 1800000
TEN_SEC == 10000
ONE_SWIPE == 400

None == <<>>
Some(e) == <<e>>
The(o) == o[1]

Max(a, b) == IF a >= b THEN a ELSE b
Min(a, b) == IF a <= b THEN a ELSE b

(* String constants, as token sequences *)
Str(name) == <<name>>

-----------------------------------------------------------------------------
(* analytics/event.py *)

relations == {"rC", "rV", "rS"}
bookends == {"BF", "FF"}
bookend_xpaths == {Str("uC"), Str("BF"), Str("FF"), Str("null")}
multiples == {"rS", "SF", "CC"}

get_stage(code, xpath) ==
    IF code \in relations THEN "RELATION"
    ELSE IF code \in bookends \/ xpath \in bookend_xpaths THEN "BOOKEND"
    ELSE "QUESTION"

\* Event.__init__(row, line)
Event(row, line) ==
    [rows |-> <<row>>,
     line |-> line,
     code |-> row[2],
     start_time |-> row[1],
     max_time |-> row[1],
     min_time |-> row[1],
     increasing |-> TRUE,
     stage |-> get_stage(row[2], row[3])]

\* Event.last_time(): the time of the last row of self.rows
last_time(e) == e.rows[Len(e.rows)][1]

\* Event.add_row(row, line) for a row of the event's code (the only calls
\* made): the bounds and the flag are updated; self.rows is not touched.
add_row(e, row) ==
    [e EXCEPT !.max_time = Max(e.max_time, row[1]),
              !.min_time = Min(e.min_time, row[1]),
              !.increasing = IF e.increasing /\ row[1] < last_time(e)
                             THEN FALSE ELSE e.increasing]

\* the loop `for row in rows: copy.add_row(row, self.line)` of Event.copy
RECURSIVE add_rows(_, _)
add_rows(e, rows) ==
    IF rows = <<>> THEN e ELSE add_rows(add_row(e, Head(rows)), Tail(rows))

\* Event.copy()
copy(e) == add_rows(Event(Head(e.rows), e.line), Tail(e.rows))

\* Event.set_code(code)
set_code(e, code) ==
    [e EXCEPT !.rows = [i \in DOMAIN e.rows |-> [e.rows[i] EXCEPT ![2] = code]],
              !.code = code]

\* Event.set_time(time)
set_time(e, time) ==
    [e EXCEPT !.rows = [i \in DOMAIN e.rows |-> [e.rows[i] EXCEPT ![1] = time]],
              !.start_time = time,
              !.max_time = time,
              !.min_time = time,
              !.increasing = TRUE]

\* create_pause_next placing the pause after the event's first timestamp
create_pause_next_min(e) ==
    [set_time(set_code(copy(e), "oP"), e.min_time + 1)
        EXCEPT !.line = e.line + 2 * Len(e.rows) + 1]

\* Event.create_pause_next(); line is in half lines
create_pause_next(e) ==
    [set_time(set_code(copy(e), "oP"), e.max_time + 1)
        EXCEPT !.line = e.line + 2 * Len(e.rows) + 1]

\* re.search(r'(^|/)([^/]+)\[1\]$', xpath): group 2 when found, else xpath
LastSlash(xpath) ==
    LET S == {i \in DOMAIN xpath : xpath[i] = "/"}
    IN IF S = {} THEN 0 ELSE CHOOSE i \in S : \A j \in S : j <= i

prompt_of(xpath) ==
    LET n == Len(xpath)
        k == LastSlash(xpath)
    IN IF n >= 1 /\ xpath[n] = "[1]" /\ n - 1 > k
       THEN SubSeq(xpath, k + 1, n - 1)
       ELSE xpath

\* Event.prompts(): one prompt per row of self.rows, in row order
prompts(e) == [i \in DOMAIN e.rows |-> prompt_of(e.rows[i][3])]

\* set(event.prompts())
prompt_set(e) == {prompts(e)[i] : i \in DOMAIN e.rows}

\* Event.__sub__
EventSub(self, other) == self.max_time - other.min_time

\* Event.__gt__
EventGt(self, other) == self.min_time > other.max_time

-----------------------------------------------------------------------------
(* analytics/instance.py: the thresholds summarize_log gives the Logparser *)

\* Instance.initialize_constants
short_break_threshold == THIRTY_MIN
event_threshold == ONE_SWIPE
\* the relation threshold left at the default of Logparser.__init__
relation_threshold_default == 60000

relation_threshold == TEN_SEC

-----------------------------------------------------------------------------
(* analytics/logparser.py: ParserHelper.  A helper state h is the record  *)
(* [cur_event, last_resume, prev_non_relation] of optional Events.  Each  *)
(* method is an operator from the state to its outcome.                   *)

\* ParserHelper.__init__
NewHelper == [cur_event |-> None, last_resume |-> None, prev_non_relation |-> None]

\* ParserHelper.is_code_change
is_code_change(h, code) == The(h.cur_event).code # code

\* is_time_split with the relation threshold for every code
is_time_split_relation(h, time) ==
    time - The(h.cur_event).start_time > relation_threshold

\* ParserHelper.is_time_split
is_time_split(h, time) ==
    LET threshold == IF The(h.cur_event).code \in relations
                     THEN relation_threshold ELSE event_threshold
    IN time - The(h.cur_event).start_time > threshold

\* update_previous remembering every closed event, relation events too
update_previous_any(h) ==
    LET cur == The(h.cur_event)
        lr == IF cur.code = "oR" THEN h.cur_event
              ELSE IF cur.code = "oP" THEN None
              ELSE h.last_resume
        nonrel == cur.code \notin relations
    IN [h |-> [h EXCEPT !.last_resume = lr,
                        !.prev_non_relation = h.cur_event],
        warn |-> IF nonrel /\ h.prev_non_relation = None /\ cur.code # "oR"
                 THEN <<"First non-relation event not oR">> ELSE <<>>]

\* update_previous with the test for a non-relation code chained by elif to
\* the tests for oR and oP
update_previous_elif(h) ==
    LET cur == The(h.cur_event)
        lr == IF cur.code = "oR" THEN h.cur_event
              ELSE IF cur.code = "oP" THEN None
              ELSE h.last_resume
        nonrel == cur.code \notin relations /\ cur.code \notin {"oR", "oP"}
    IN [h |-> [h EXCEPT !.last_resume = lr,
                        !.prev_non_relation = IF nonrel THEN h.cur_event ELSE @],
        warn |-> IF nonrel /\ h.prev_non_relation = None /\ cur.code # "oR"
                 THEN <<"First non-relation event not oR">> ELSE <<>>]

\* ParserHelper.update_previous: the new state and the warnings logged
update_previous(h) ==
    LET cur == The(h.cur_event)
        lr == IF cur.code = "oR" THEN h.cur_event
              ELSE IF cur.code = "oP" THEN None
              ELSE h.last_resume
        nonrel == cur.code \notin relations
    IN [h |-> [h EXCEPT !.last_resume = lr,
                        !.prev_non_relation = IF nonrel THEN h.cur_event ELSE @],
        warn |-> IF nonrel /\ h.prev_non_relation = None /\ cur.code # "oR"
                 THEN <<"First non-relation event not oR">> ELSE <<>>]

\* ParserHelper.check_repeatable: Event has no method is_repeatable, so the
\* call self.cur_event.is_repeatable(), evaluated iff time_split and not
\* code_change, raises AttributeError; otherwise nothing happens.
check_repeatable(h, time_split, code_change) ==
    IF time_split /\ ~code_change THEN "AttributeError" ELSE "none"

\* ParserHelper.check_increasing: Event has no __len__, so len(self.cur_event),
\* evaluated iff the event is not increasing, raises TypeError.
check_increasing(h) ==
    IF ~The(h.cur_event).increasing THEN "TypeError" ELSE "none"

\* check_resume never asking for a pause
check_resume_never(h, this_code) == [pause |-> None, warn |-> <<>>, err |-> "none"]

\* ParserHelper.check_resume: the pause to insert (or None), the warnings,
\* and AttributeError when create_pause_next is called on None.
check_resume(h, this_code) ==
    IF this_code = "oR" /\ h.last_resume # None
    THEN IF h.prev_non_relation = None
         THEN [pause |-> None, warn |-> <<"oR, oR without oP">>,
               err |-> "AttributeError"]
         ELSE [pause |-> Some(create_pause_next(The(h.prev_non_relation))),
               warn |-> <<"oR, oR without oP">>, err |-> "none"]
    ELSE [pause |-> None, warn |-> <<>>, err |-> "none"]

\* replace_with_next returning the pause ahead of the closed event
replace_with_next_pause_first(h, row, line, pause) ==
    [out |-> pause \o h.cur_event,
     h |-> [h EXCEPT !.cur_event = Some(Event(row, line))]]

\* ParserHelper.replace_with_next: the list returned and the new state
replace_with_next(h, row, line, pause) ==
    [out |-> h.cur_event \o pause,
     h |-> [h EXCEPT !.cur_event = Some(Event(row, line))]]

\* ParserHelper.parse_next_row(row, line): the state it leaves, the events
\* it returns, the warnings it logs and the exception it raises, if any.
\* (Event.add_row would raise LogparserException on a row of another code.)
parse_next_row(h, row, line) ==
    IF h.cur_event = None
    THEN [h |-> [h EXCEPT !.cur_event = Some(Event(row, line))],
          out |-> <<>>, warn |-> <<>>, err |-> "none"]
    ELSE
      LET this_time == row[1]
          this_code == row[2]
          time_split == is_time_split(h, this_time)
          code_change == is_code_change(h, this_code)
      IN IF time_split \/ code_change
         THEN
           LET up == update_previous(h)
               e1 == check_repeatable(up.h, time_split, code_change)
               e2 == check_increasing(up.h)
               cr == check_resume(up.h, this_code)
               rn == replace_with_next(up.h, row, line, cr.pause)
           IN IF e1 # "none"
              THEN [h |-> up.h, out |-> <<>>, warn |-> up.warn, err |-> e1]
              ELSE IF e2 # "none"
              THEN [h |-> up.h, out |-> <<>>, warn |-> up.warn, err |-> e2]
              ELSE IF cr.err # "none"
              THEN [h |-> up.h, out |-> <<>>, warn |-> up.warn \o cr.warn,
                    err |-> cr.err]
              ELSE [h |-> rn.h, out |-> rn.out, warn |-> up.warn \o cr.warn,
                    err |-> "none"]
         ELSE IF this_code # The(h.cur_event).code
         THEN [h |-> h, out |-> <<>>, warn |-> <<>>, err |-> "LogparserException"]
         ELSE [h |-> [h EXCEPT !.cur_event = Some(add_row(The(h.cur_event), row))],
               out |-> <<>>, warn |-> <<>>, err |-> "none"]

\* ParserHelper.finalize(): its first statement evaluates
\* self.cur_event.line + len(self.cur_event) + 1.  With no current event
\* self.cur_event.line raises AttributeError; otherwise len() of an Event,
\* which defines no __len__, raises TypeError.  Nothing after it runs.
finalize(h) ==
    [h |-> h, out |-> <<>>, warn |-> <<>>,
     err |-> IF h.cur_event = None THEN "AttributeError" ELSE "TypeError"]

-----------------------------------------------------------------------------
(* analytics/logparser.py: Logparser.  A raw row is the list of fields    *)
(* csv.reader yields for a line.  Field 0 is a sequence of tokens: the    *)
(* token EpochDigits stands for the nine leading digits of the epoch, any *)
(* other token is one character.  Field 1 is a string whose characters    *)
(* the table chars gives; field 2 is a token sequence, '' being <<>>.     *)

EpochDigits == "150000000"

Digits == {"0", "1", "2", "3", "4", "5", "6", "7", "8", "9"}

DigitVal ==
    ("0" :> 0) @@ ("1" :> 1) @@ ("2" :> 2) @@ ("3" :> 3) @@ ("4" :> 4) @@
    ("5" :> 5) @@ ("6" :> 6) @@ ("7" :> 7) @@ ("8" :> 8) @@ ("9" :> 9)

\* the number of decimal digits a token of field 0 stands for
NDigits(tok) == IF tok = EpochDigits THEN 9 ELSE IF tok \in Digits THEN 1 ELSE 0

\* the number of digit characters a string begins with
RECURSIVE LeadingDigits(_)
LeadingDigits(f) ==
    IF f = <<>> \/ NDigits(Head(f)) = 0 THEN 0
    ELSE NDigits(Head(f)) + LeadingDigits(Tail(f))

\* re.compile(r'\d{13}').match(row[0]) is not None: match() anchors the
\* pattern at the start of the string only
timestamp_pattern_match(f) == LeadingDigits(f) >= 13

\* the characters of the code strings of the model
chars(code) ==
    CASE code = "oR" -> <<"o", "R">>
      [] code = "oP" -> <<"o", "P">>
      [] code = "EP" -> <<"E", "P">>
      [] code = "LP" -> <<"L", "P">>
      [] code = "rV" -> <<"r", "V">>
      [] code = "oRx" -> <<"o", "R", "x">>
      [] code = "o" -> <<"o">>

\* a character of the class \w
IsWord(c) == c \in {"o", "R", "P", "E", "L", "r", "V", "x", "_"} \cup Digits

\* re.compile(r'\w\w').match(row[1]) is not None
event_pattern_match(code) ==
    LET cs == chars(code)
    IN Len(cs) >= 2 /\ IsWord(cs[1]) /\ IsWord(cs[2])

\* row[0].startswith('#')
startswith_hash(f) == f # <<>> /\ Head(f) = "#"

\* is_valid_entry that does not look at the number of fields of a row of
\* three fields or more
is_valid_entry_any_length(row, ind) ==
    IF row = <<>>
    THEN [valid |-> FALSE, warn |-> <<"Empty line: " \o ToString(ind + 1)>>]
    ELSE IF startswith_hash(row[1]) /\ ind = 0
    THEN [valid |-> FALSE, warn |-> <<>>]
    ELSE IF Len(row) < 3
    THEN [valid |-> FALSE,
          warn |-> <<"Line with incorrect length: " \o ToString(ind + 1)>>]
    ELSE IF timestamp_pattern_match(row[1]) /\ event_pattern_match(row[2])
            /\ row[3] # <<>>
    THEN [valid |-> TRUE, warn |-> <<>>]
    ELSE [valid |-> FALSE,
          warn |-> <<"Incorrectly formatted line: " \o ToString(ind + 1)>>]

\* Logparser.is_valid_entry(row, ind, folder), folder given: the value
\* returned and the warnings logged
is_valid_entry(row, ind) ==
    IF row = <<>>
    THEN [valid |-> FALSE, warn |-> <<"Empty line: " \o ToString(ind + 1)>>]
    ELSE IF startswith_hash(row[1]) /\ ind = 0
    THEN [valid |-> FALSE, warn |-> <<>>]
    ELSE IF Len(row) # 4
    THEN [valid |-> FALSE,
          warn |-> <<"Line with incorrect length: " \o ToString(ind + 1)>>]
    ELSE IF timestamp_pattern_match(row[1]) /\ event_pattern_match(row[2])
            /\ row[3] # <<>>
    THEN [valid |-> TRUE, warn |-> <<>>]
    ELSE [valid |-> FALSE,
          warn |-> <<"Incorrectly formatted line: " \o ToString(ind + 1)>>]

\* int(row[0]) raises ValueError unless the string is all digits
int_raises(f) == f = <<>> \/ \E i \in DOMAIN f : NDigits(f[i]) = 0

RECURSIVE Decimal(_, _)
Decimal(acc, ds) ==
    IF ds = <<>> THEN acc ELSE Decimal(10 * acc + DigitVal[Head(ds)], Tail(ds))

\* int(row[0]) for a string of EpochDigits and four digits, as the offset
\* from the epoch EpochDigits * 10^4
int(f) == Decimal(0, Tail(f))

\* Logparser.get_version(line): re.search(r'v\d\.\d$', line), the matched
\* text or None
get_version(line) ==
    LET n == Len(line)
    IN IF n >= 4 /\ line[n - 3] = "v" /\ line[n - 2] \in Digits
          /\ line[n - 1] = "." /\ line[n] \in Digits
       THEN SubSeq(line, n - 3, n)
       ELSE None

\* Logparser.capture_events_from_file, on the first row of the reader: the
\* version it stores and the warning it logs
first_version(first) ==
    IF first # <<>> /\ startswith_hash(first[1]) THEN get_version(first[1]) ELSE None

version_warning(v) ==
    IF v = None THEN <<"No logging version in first line">> ELSE <<>>

-----------------------------------------------------------------------------
(* analytics/instance.py: Instance.__init__ and LogParseState.__init__ *)

\* the tracked prompt list given to Instance(name, prompts, tags)
tracked_prompts == {Str("p")}

\* the log-derived fields Instance.__init__ sets before summarize_log;
\* a dict is a function on its set of keys, {} the empty function
NewInstance ==
    [log_version |-> None,
     resumed |-> 0,
     paused |-> 0,
     short_break |-> 0,
     save_count |-> 0,
     enter_count |-> 0,
     relation_self_destruct |-> 0,
     prompt_resumed |-> <<>>,
     prompt_short_break |-> <<>>,
     prompt_cc |-> <<>>,
     prompt_visits |-> <<>>,
     prompt_changes |-> <<>>,
     prompt_value |-> <<>>,
     uncaptured_prompts |-> {}]

\* a LogParseState whose last_enter outlives the instance
NewLogParseState_kept ==
    [last_resume |-> None, last_pause |-> None, last_enter |-> state.last_enter,
     prev_event |-> None]

\* LogParseState.__init__
NewLogParseState ==
    [last_resume |-> None, last_pause |-> None, last_enter |-> None,
     prev_event |-> None]

\* summarize_log giving up only when there is no log file at all
summarize_log_start_none(n) ==
    IF n = 0
    THEN [skip |-> TRUE, warn |-> <<"Number of txt files found: " \o ToString(n)>>]
    ELSE [skip |-> FALSE, warn |-> <<>>]

\* the start of Instance.summarize_log, n = len(self.txt): whether it
\* returns at once, and the message it logs (logging.error)
summarize_log_start(n) ==
    IF n # 1
    THEN [skip |-> TRUE, warn |-> <<"Number of txt files found: " \o ToString(n)>>]
    ELSE [skip |-> FALSE, warn |-> <<>>]

-----------------------------------------------------------------------------
(* analytics/instance.py: the trackers of summarize_log.  Each takes and  *)
(* returns the Instance fields (inst) and the LogParseState (st).         *)

\* d[k] += x, or d[k] = x when k is not a key yet
DictAdd(d, k, x) ==
    IF k \in DOMAIN d THEN [d EXCEPT ![k] = @ + x] ELSE d @@ (k :> x)

\* `for prompt in keys: d[prompt] += x (or = x)`, keys a set
DictAddAll(d, keys, x) ==
    [k \in DOMAIN d \cup keys |->
        IF k \in keys THEN (IF k \in DOMAIN d THEN d[k] + x ELSE x) ELSE d[k]]

\* Instance.check_event_order: the warnings logged
check_event_order(event, st) ==
    IF st.prev_event # None /\ EventGt(The(st.prev_event), event)
    THEN <<"Out of order events">> ELSE <<>>

\* update_paused testing only `paused_diff < self.short_break_threshold`
update_paused_below(i, paused_diff) ==
    [i EXCEPT !.paused = IF paused_diff > 0 THEN @ + paused_diff ELSE @,
              !.short_break = IF paused_diff < short_break_threshold
                              THEN @ + paused_diff ELSE @]

\* Instance.update_paused
update_paused(i, paused_diff) ==
    [i EXCEPT !.paused = IF paused_diff > 0 THEN @ + paused_diff ELSE @,
              !.short_break = IF 0 < paused_diff /\ paused_diff < short_break_threshold
                              THEN @ + paused_diff ELSE @]

\* update_resumed without its `if resumed_diff > 0`
update_resumed_any(i, resumed_diff) ==
    [i EXCEPT !.resumed = @ + resumed_diff]

\* Instance.update_resumed
update_resumed(i, resumed_diff) ==
    [i EXCEPT !.resumed = IF resumed_diff > 0 THEN @ + resumed_diff ELSE @]

\* Instance.screen_short_break_time with
\* Instance.update_screen_short_break_time
screen_short_break_time(i, pause, resume) ==
    IF pause.stage = "QUESTION" /\ resume.stage = "QUESTION"
    THEN LET time_diff == EventSub(resume, pause)
         IN IF 0 < time_diff /\ time_diff < short_break_threshold
            THEN [i EXCEPT !.prompt_short_break =
                     DictAddAll(@, prompt_set(pause) \cap prompt_set(resume), time_diff)]
            ELSE i
    ELSE i

\* Instance.screen_time with Instance.update_screen_time; enter_event is an
\* optional Event
screen_time(i, enter_event, leave_event) ==
    IF enter_event # None /\ leave_event.stage = "QUESTION"
    THEN LET time_diff == EventSub(leave_event, The(enter_event))
             common == prompt_set(The(enter_event)) \cap prompt_set(leave_event)
         IN [inst |-> [i EXCEPT !.prompt_resumed = DictAddAll(@, common, time_diff)],
             warn |-> IF common = {} THEN <<"Unmatched enter/exit event">> ELSE <<>>]
    ELSE [inst |-> i, warn |-> <<>>]

\* track_resume_pause with a pause that restarts at every oP: an oP Event
\* found while a pause is open becomes the open pause
track_resume_pause_latest(i, st, event) ==
    IF event.code = "oR"
    THEN IF st.last_pause = None /\ st.last_resume = None
         THEN [inst |-> i, st |-> [st EXCEPT !.last_resume = Some(event)], warn |-> <<>>]
         ELSE IF st.last_pause # None /\ st.last_resume = None
         THEN LET paused_diff == EventSub(event, The(st.last_pause))
              IN [inst |-> update_paused(
                              screen_short_break_time(i, The(st.last_pause), event),
                              paused_diff),
                  st |-> [st EXCEPT !.last_resume = Some(event), !.last_pause = None],
                  warn |-> <<>>]
         ELSE IF st.last_resume # None /\ st.last_pause = None
         THEN [inst |-> i, st |-> st, warn |-> <<"Still oR, oR without oP">>]
         ELSE [inst |-> i, st |-> st, warn |-> <<>>]
    ELSE IF event.code = "oP"
    THEN IF st.last_pause = None /\ st.last_resume = None
         THEN [inst |-> i, st |-> st, warn |-> <<"Before first oR, found oP">>]
         ELSE IF st.last_resume # None /\ st.last_pause = None
         THEN LET resumed_diff == EventSub(event, The(st.last_resume))
              IN [inst |-> update_resumed(i, resumed_diff),
                  st |-> [st EXCEPT !.last_resume = None, !.last_pause = Some(event)],
                  warn |-> IF resumed_diff > TWO_HR
                           THEN <<"Large resumed time (>2hr)">> ELSE <<>>]
         ELSE IF st.last_pause # None /\ st.last_resume = None
         THEN [inst |-> i, st |-> [st EXCEPT !.last_pause = Some(event)],
               warn |-> <<"oP, oP without oR">>]
         ELSE [inst |-> i, st |-> st, warn |-> <<>>]
    ELSE [inst |-> i, st |-> st, warn |-> <<>>]

\* track_resume_pause without `state.last_resume = None` when a pause
\* closes the open resume
track_resume_pause_kept(i, st, event) ==
    IF event.code = "oR"
    THEN IF st.last_pause = None /\ st.last_resume = None
         THEN [inst |-> i, st |-> [st EXCEPT !.last_resume = Some(event)], warn |-> <<>>]
         ELSE IF st.last_pause # None /\ st.last_resume = None
         THEN LET paused_diff == EventSub(event, The(st.last_pause))
              IN [inst |-> update_paused(
                              screen_short_break_time(i, The(st.last_pause), event),
                              paused_diff),
                  st |-> [st EXCEPT !.last_resume = Some(event), !.last_pause = None],
                  warn |-> <<>>]
         ELSE IF st.last_resume # None /\ st.last_pause = None
         THEN [inst |-> i, st |-> st, warn |-> <<"Still oR, oR without oP">>]
         ELSE [inst |-> i, st |-> st, warn |-> <<>>]
    ELSE IF event.code = "oP"
    THEN IF st.last_pause = None /\ st.last_resume = None
         THEN [inst |-> i, st |-> st, warn |-> <<"Before first oR, found oP">>]
         ELSE IF st.last_resume # None /\ st.last_pause = None
         THEN LET resumed_diff == EventSub(event, The(st.last_resume))
              IN [inst |-> update_resumed(i, resumed_diff),
                  st |-> [st EXCEPT !.last_pause = Some(event)],
                  warn |-> IF resumed_diff > TWO_HR
                           THEN <<"Large resumed time (>2hr)">> ELSE <<>>]
         ELSE IF st.last_pause # None /\ st.last_resume = None
         THEN [inst |-> i, st |-> st, warn |-> <<"oP, oP without oR">>]
         ELSE [inst |-> i, st |-> st, warn |-> <<>>]
    ELSE [inst |-> i, st |-> st, warn |-> <<>>]

\* Instance.track_resume_pause
track_resume_pause(i, st, event) ==
    IF event.code = "oR"
    THEN IF st.last_pause = None /\ st.last_resume = None
         THEN [inst |-> i, st |-> [st EXCEPT !.last_resume = Some(event)], warn |-> <<>>]
         ELSE IF st.last_pause # None /\ st.last_resume = None
         THEN LET paused_diff == EventSub(event, The(st.last_pause))
              IN [inst |-> update_paused(
                              screen_short_break_time(i, The(st.last_pause), event),
                              paused_diff),
                  st |-> [st EXCEPT !.last_resume = Some(event), !.last_pause = None],
                  warn |-> <<>>]
         ELSE IF st.last_resume # None /\ st.last_pause = None
         THEN [inst |-> i, st |-> st, warn |-> <<"Still oR, oR without oP">>]
         ELSE [inst |-> i, st |-> st, warn |-> <<>>]
    ELSE IF event.code = "oP"
    THEN IF st.last_pause = None /\ st.last_resume = None
         THEN [inst |-> i, st |-> st, warn |-> <<"Before first oR, found oP">>]
         ELSE IF st.last_resume # None /\ st.last_pause = None
         THEN LET resumed_diff == EventSub(event, The(st.last_resume))
              IN [inst |-> update_resumed(i, resumed_diff),
                  st |-> [st EXCEPT !.last_resume = None, !.last_pause = Some(event)],
                  warn |-> IF resumed_diff > TWO_HR
                           THEN <<"Large resumed time (>2hr)">> ELSE <<>>]
         ELSE IF st.last_pause # None /\ st.last_resume = None
         THEN [inst |-> i, st |-> st, warn |-> <<"oP, oP without oR">>]
         ELSE [inst |-> i, st |-> st, warn |-> <<>>]
    ELSE [inst |-> i, st |-> st, warn |-> <<>>]

\* track_question_resumed_time without `state.last_enter = None`
track_question_resumed_time_open(i, st, event) ==
    IF event.code = "oR" \/ event.code = "EP"
    THEN [inst |-> i,
          st |-> IF event.stage = "QUESTION"
                 THEN [st EXCEPT !.last_enter = Some(event)] ELSE st,
          warn |-> <<>>]
    ELSE IF event.code = "oP" \/ event.code = "LP"
    THEN IF event.stage = "QUESTION"
         THEN LET r == screen_time(i, st.last_enter, event)
              IN [inst |-> r.inst, st |-> st, warn |-> r.warn]
         ELSE [inst |-> i, st |-> st, warn |-> <<>>]
    ELSE [inst |-> i, st |-> st, warn |-> <<>>]

\* Instance.track_question_resumed_time
track_question_resumed_time(i, st, event) ==
    IF event.code = "oR" \/ event.code = "EP"
    THEN [inst |-> i,
          st |-> IF event.stage = "QUESTION"
                 THEN [st EXCEPT !.last_enter = Some(event)] ELSE st,
          warn |-> <<>>]
    ELSE IF event.code = "oP" \/ event.code = "LP"
    THEN IF event.stage = "QUESTION"
         THEN LET r == screen_time(i, st.last_enter, event)
              IN [inst |-> r.inst, st |-> [st EXCEPT !.last_enter = None],
                  warn |-> r.warn]
         ELSE [inst |-> i, st |-> st, warn |-> <<>>]
    ELSE [inst |-> i, st |-> st, warn |-> <<>>]

\* Instance.update_screen_visits
update_screen_visits(i, prompt) ==
    [i EXCEPT !.prompt_visits = DictAdd(@, prompt, 1),
              !.uncaptured_prompts = IF prompt \notin tracked_prompts
                                     THEN @ \cup {prompt} ELSE @]

\* Instance.screen_visit: update_screen_visits for each prompt, in row order
RECURSIVE screen_visit(_, _)
screen_visit(i, ps) ==
    IF ps = <<>> THEN i ELSE screen_visit(update_screen_visits(i, Head(ps)), Tail(ps))

\* Instance.update_screen_cc
update_screen_cc(i, prompt) == [i EXCEPT !.prompt_cc = DictAdd(@, prompt, 1)]

\* Instance.screen_cc: update_screen_cc for each prompt, in row order
RECURSIVE screen_cc(_, _)
screen_cc(i, ps) ==
    IF ps = <<>> THEN i ELSE screen_cc(update_screen_cc(i, Head(ps)), Tail(ps))

\* Instance.track_countables
track_countables(i, event) ==
    LET i1 == IF event.code = "EP" /\ event.stage = "QUESTION"
              THEN [screen_visit(i, prompts(event)) EXCEPT !.enter_count = @ + 1]
              ELSE i
    IN IF event.code = "CC"
       THEN IF event.stage = "QUESTION" THEN screen_cc(i1, prompts(event)) ELSE i1
       ELSE IF event.code = "SF" THEN [i1 EXCEPT !.save_count = @ + 1]
       ELSE IF event.code = "rS" THEN [i1 EXCEPT !.relation_self_destruct = @ + 1]
       ELSE i1

\* one turn of the loop of Instance.track_prompt_value, on one row (entry)
\* and its prompt
track_row_value(i, entry, prompt) ==
    LET xpath == entry[3]
        value == entry[4]
    IN IF xpath \notin DOMAIN i.prompt_value
       THEN [i EXCEPT !.prompt_value = @ @@ (xpath :> value),
                      !.prompt_changes = IF value # "" THEN DictAdd(@, prompt, 1) ELSE @]
       ELSE IF i.prompt_value[xpath] # value
       THEN [i EXCEPT !.prompt_value = [@ EXCEPT ![xpath] = value],
                      !.prompt_changes = DictAdd(@, prompt, 1)]
       ELSE i

\* Instance.track_prompt_value: zip(event, event.prompts()), from row k on
RECURSIVE track_prompt_value_from(_, _, _)
track_prompt_value_from(i, event, k) ==
    IF k > Len(event.rows) THEN i
    ELSE track_prompt_value_from(
             track_row_value(i, event.rows[k], prompts(event)[k]), event, k + 1)

track_prompt_value(i, event) == track_prompt_value_from(i, event, 1)

\* the body of the loop `for event in parser` of Instance.summarize_log
summarize_event(i, st, event) ==
    LET w0 == check_event_order(event, st)
        r1 == track_resume_pause(i, st, event)
        r2 == track_question_resumed_time(r1.inst, r1.st, event)
        i3 == track_countables(r2.inst, event)
        i4 == track_prompt_value(i3, event)
    IN [inst |-> i4, st |-> r2.st, warn |-> w0 \o r1.warn \o r2.warn]

-----------------------------------------------------------------------------
(* The state machine *)

Helper ==
    [cur_event |-> cur_event, last_resume |-> last_resume,
     prev_non_relation |-> prev_non_relation]

\* The first Instance, with one log file, at the start of the loop of
\* capture_events
Init ==
    /\ COUNT = 1
    /\ txt = 1
    /\ lines = <<>>
    /\ version = None
    /\ input = <<>>
    /\ lineno = 0
    /\ cur_event = None
    /\ last_resume = None
    /\ prev_non_relation = None
    /\ events = <<>>
    /\ warnings = <<>>
    /\ err = "none"
    /\ pc = "parsing"
    /\ n_seen = 0
    /\ inst = NewInstance
    /\ state = NewLogParseState

\* One turn of the loop of Logparser.capture_events on a valid row, row[0]
\* converted: result = helper.parse_next_row(row, i); events.extend(result).
\* The first row of the reader is the one capture_events_from_file has
\* looked at for the version: a valid row carries none, which is logged.
ParseNextRow(row) ==
    /\ pc = "parsing"
    /\ LET r == parse_next_row(Helper, row, 2 * lineno)
       IN /\ cur_event' = r.h.cur_event
          /\ last_resume' = r.h.last_resume
          /\ prev_non_relation' = r.h.prev_non_relation
          /\ events' = events \o r.out
          /\ warnings' = warnings
                            \o (IF lineno = 0 THEN version_warning(None) ELSE <<>>)
                            \o r.warn
          /\ err' = r.err
          /\ pc' = IF r.err = "none" THEN "parsing" ELSE "raised"
    /\ input' = Append(input, row)
    /\ lines' = Append(lines, row)
    /\ lineno' = lineno + 1
    /\ UNCHANGED <<COUNT, txt, version, n_seen, inst, state>>

\* The end of Logparser.capture_events:
\* result = helper.finalize(); events.extend(result); return events
\* and, back in Instance.summarize_log, self.log_version = parser.version.
\* (When the reader has no row at all, next(reader) in
\* capture_events_from_file has raised StopIteration instead.)
Finalize ==
    /\ pc = "parsing"
    /\ LET r == finalize(Helper)
       IN /\ cur_event' = r.h.cur_event
          /\ last_resume' = r.h.last_resume
          /\ prev_non_relation' = r.h.prev_non_relation
          /\ events' = events \o r.out
          /\ warnings' = warnings \o r.warn
          /\ err' = IF lineno = 0 THEN "StopIteration" ELSE r.err
          /\ pc' = "finalized"
    /\ inst' = [inst EXCEPT !.log_version = version]
    /\ UNCHANGED <<COUNT, txt, lines, version, input, lineno, n_seen, state>>

\* One turn of the loop `for event in parser` of Instance.summarize_log, on
\* the next of the events capture_events has collected.  (finalize ends
\* capture_events with the exception recorded in err; the walk is taken over
\* the Events parse_next_row had returned by then.)
SummarizeEvent ==
    /\ pc = "finalized"
    /\ n_seen < Len(events)
    /\ LET r == summarize_event(inst, state, events[n_seen + 1])
       IN /\ inst' = r.inst
          /\ state' = r.st
          /\ warnings' = warnings \o r.warn
    /\ n_seen' = n_seen + 1
    /\ UNCHANGED <<COUNT, txt, lines, version, input, lineno, cur_event,
                   last_resume, prev_non_relation, events, err, pc>>

\* One turn of the loop of Logparser.capture_events on any row of the
\* reader: is_valid_entry, then row[0] = int(row[0]), then parse_next_row.
\* On the first row, the version read of capture_events_from_file.
CaptureLine(row) ==
    /\ pc = "parsing"
    /\ LET v == is_valid_entry(row, lineno)
           w0 == IF lineno = 0 THEN version_warning(first_version(row)) ELSE <<>>
       IN IF ~v.valid
          THEN /\ lines' = Append(lines, row)
               /\ version' = IF lineno = 0 THEN first_version(row) ELSE version
               /\ warnings' = warnings \o w0 \o v.warn
               /\ lineno' = lineno + 1
               /\ UNCHANGED <<COUNT, txt, input, cur_event, last_resume,
                              prev_non_relation, events, err, pc, n_seen, inst,
                              state>>
          ELSE IF int_raises(row[1])
          THEN /\ lines' = Append(lines, row)
               /\ warnings' = warnings \o w0
               /\ err' = "ValueError"
               /\ pc' = "raised"
               /\ UNCHANGED <<COUNT, txt, version, input, lineno, cur_event,
                              last_resume, prev_non_relation, events, n_seen,
                              inst, state>>
          ELSE ParseNextRow([row EXCEPT ![1] = int(row[1])])

\* Instance(folder, prompts, tags) of the loop of analytics_to_csv, for the
\* next folder, n the number of log files in it: Instance.__init__ and
\* summarize_log up to the ParserHelper that capture_events creates.  The
\* objects of the instance before are dropped; warnings restarts as the
\* diagnostics of this instance.
CreateInstance(n) ==
    /\ \/ pc \in {"idle", "skipped"}
       \/ pc = "finalized" /\ n_seen = Len(events)
    /\ COUNT < MaxInstances
    /\ COUNT' = COUNT + 1
    /\ txt' = n
    /\ inst' = NewInstance
    /\ lines' = <<>>
    /\ version' = None
    /\ input' = <<>>
    /\ lineno' = 0
    /\ cur_event' = NewHelper.cur_event
    /\ last_resume' = NewHelper.last_resume
    /\ prev_non_relation' = NewHelper.prev_non_relation
    /\ events' = <<>>
    /\ err' = "none"
    /\ n_seen' = 0
    /\ state' = NewLogParseState
    /\ LET s == summarize_log_start(n)
       IN /\ warnings' = s.warn
          /\ pc' = IF s.skip THEN "skipped" ELSE "parsing"

\* the program before analytics_to_csv has created any Instance
InitBatch ==
    /\ COUNT = 0
    /\ txt = 0
    /\ lines = <<>>
    /\ version = None
    /\ input = <<>>
    /\ lineno = 0
    /\ cur_event = None
    /\ last_resume = None
    /\ prev_non_relation = None
    /\ events = <<>>
    /\ warnings = <<>>
    /\ err = "none"
    /\ pc = "idle"
    /\ n_seen = 0
    /\ inst = NewInstance
    /\ state = [last_resume |-> None, last_pause |-> None, last_enter |-> None,
                prev_event |-> None]

(* Row universes *)
XP == <<"/", "g", "/", "p", "[1]">>
XQ == <<"/", "g", "/", "q", "[1]">>

SegRows == {<<t, c, XP, "">> : t \in {0, 300, 500, 1000}, c \in {"oR", "oP", "EP", "rV"}}

NextSeg ==
    \/ \E row \in SegRows : Len(input) < MaxRows /\ ParseNextRow(row)
    \/ Finalize

\* The Segmenter alone, on rows of one xpath
SpecSeg == Init /\ [][NextSeg]_vars

\* Enter and leave: the Segmenter and then the walk of summarize_log
ScreenRows ==
    {<<t, c, XP, "">> : t \in {1000, 1200, 5000}, c \in {"oR", "oP", "EP", "LP"}}

NextScreen ==
    \/ \E row \in ScreenRows : Len(input) < MaxScreenRows /\ ParseNextRow(row)
    \/ Finalize
    \/ SummarizeEvent

SpecScreen == Init /\ [][NextScreen]_vars

\* Pause and resume: the Segmenter and then the walk of summarize_log
BreakRows ==
    {<<t, c, XP, "">> : t \in {1000, 1200, 901200, 2001200}, c \in {"oR", "oP"}}

NextBreak ==
    \/ \E row \in BreakRows : Len(input) < MaxBreakRows /\ ParseNextRow(row)
    \/ Finalize
    \/ SummarizeEvent

SpecBreak == Init /\ [][NextBreak]_vars

\* Values: the Segmenter and then the walk of summarize_log
ValueRows ==
    {<<t, c, x, v>> : t \in {0, 300}, c \in {"EP", "LP"}, x \in {XP, XQ},
                     v \in {"", "A", "B"}}

NextValue ==
    \/ \E row \in ValueRows : Len(input) < MaxValueRows /\ ParseNextRow(row)
    \/ Finalize
    \/ SummarizeEvent

SpecValue == Init /\ [][NextValue]_vars

\* Raw rows: the Segmenter behind the validation of capture_events.
\* (A timestamp of more than 13 digits is an integer beyond the range of
\* the model and is in no universe.)
T0 == <<EpochDigits, "0", "0", "0", "0">>
T300 == <<EpochDigits, "0", "3", "0", "0">>
VersionLine == << <<"#", "l", "o", "g", " ", "v", "1", ".", "0">> >>

RawLines ==
    {<<t, c, XP, "">> : t \in {T0, T300}, c \in {"oR", "EP"}}
    \cup {<<>>,
          VersionLine,
          <<T0, "oR", XP>>,
          <<T0, "oR", XP, "", "">>,
          <<T0 \o <<"x">>, "oR", XP, "">>,
          <<<<"0", "0", "0", "0">>, "oR", XP, "">>,
          <<T300, "oRx", XP, "">>,
          <<T0, "o", XP, "">>,
          <<T0, "oR", <<>>, "">>}

NextLines ==
    \/ \E row \in RawLines : lineno < MaxLines /\ CaptureLine(row)
    \/ Finalize

SpecLines == Init /\ [][NextLines]_vars

\* Splitting: rows around the two thresholds, of a relation code and of
\* another code
SplitRows ==
    {<<t, c, XP, "">> : t \in {0, 400, 401, 10000, 10001}, c \in {"EP", "rV"}}

NextSplit ==
    \/ \E row \in SplitRows : Len(input) < MaxSplitRows /\ ParseNextRow(row)
    \/ Finalize

SpecSplit == Init /\ [][NextSplit]_vars

\* A batch: instances analysed one after the other, each with 0, 1 or 2
\* log files
BatchRows == {<<t, c, XP, "">> : t \in {0, 300}, c \in {"EP", "LP"}}

NextBatch ==
    \/ \E n \in {0, 1, 2} : CreateInstance(n)
    \/ \E row \in BatchRows : Len(input) < MaxBatchRows /\ ParseNextRow(row)
    \/ Finalize
    \/ SummarizeEvent

SpecBatch == InitBatch /\ [][NextBatch]_vars

\* Stages: the Segmenter on rows of a prompt xpath and of a bookend xpath
StageRows ==
    {<<t, c, x, "">> : t \in {0, 300}, c \in {"EP", "rV", "BF"},
                      x \in {XP, Str("uC")}}

NextStage ==
    \/ \E row \in StageRows : Len(input) < MaxStageRows /\ ParseNextRow(row)
    \/ Finalize

SpecStage == Init /\ [][NextStage]_vars

\* Sessions: resumes and pauses up to and beyond two hours apart, the
\* Segmenter and then the walk of summarize_log
ResumeRows ==
    {<<t, c, XP, "">> : t \in {0, TWO_HR, TWO_HR + 1}, c \in {"oR", "oP"}}

NextResume ==
    \/ \E row \in ResumeRows : Len(input) < MaxResumeRows /\ ParseNextRow(row)
    \/ Finalize
    \/ SummarizeEvent

SpecResume == Init /\ [][NextResume]_vars

\* Pauses out of place: resumes, pauses and prompts, the Segmenter and then
\* the walk of summarize_log
PauseRows == {<<t, c, XP, "">> : t \in {0, 200}, c \in {"oR", "oP", "EP"}}

NextPause ==
    \/ \E row \in PauseRows : Len(input) < MaxPauseRows /\ ParseNextRow(row)
    \/ Finalize
    \/ SummarizeEvent

SpecPause == Init /\ [][NextPause]_vars

\* Repairs: resumes, prompts and relation rows, the Segmenter alone
RepairRows == {<<t, c, XP, "">> : t \in {0, 500}, c \in {"oR", "EP", "rV"}}

NextRepair ==
    \/ \E row \in RepairRows : Len(input) < MaxRepairRows /\ ParseNextRow(row)
    \/ Finalize

SpecRepair == Init /\ [][NextRepair]_vars

-----------------------------------------------------------------------------
(* Events as objects.  Everywhere else an Event is a value; here the Events
   of a sequence are objects that hold references to their row lists, as
   in the program, so that a write through one object shows in every
   object that shares the row.  An Event reference is a position of the
   sequence, or 0 for the Event a copy creates; a row reference is the pair
   of the Event's reference and the row's position. *)

RowRefs(i, e) == {<<i, k>> : k \in DOMAIN e.rows}

Objects(evs) ==
    [ev |-> [i \in DOMAIN evs |->
                [evs[i] EXCEPT !.rows = [k \in DOMAIN evs[i].rows |-> <<i, k>>]]],
     row |-> [ik \in UNION {RowRefs(i, evs[i]) : i \in DOMAIN evs} |->
                evs[ik[1]].rows[ik[2]]]]

\* the Event a reference stands for, its rows read through
Deref(h, id) ==
    [h.ev[id] EXCEPT !.rows = [k \in DOMAIN @ |-> h.row[@[k]]]]

\* Event.copy keeping the row lists of self: rows.append(row) for
\* rows.append(list(row))
copy_obj_shared(h, id) ==
    LET c == copy(Deref(h, id))
    IN [h |-> [h EXCEPT !.ev = (0 :> [c EXCEPT !.rows =
                                         [k \in DOMAIN c.rows |-> h.ev[id].rows[k]]])
                                @@ @],
        id |-> 0]

\* Event.copy(): the rows are copied (list(row)) and a new Event is made
\* of the copies
copy_obj(h, id) ==
    LET c == copy(Deref(h, id))
    IN [h |-> [ev |-> (0 :> [c EXCEPT !.rows = [k \in DOMAIN c.rows |-> <<0, k>>]])
                      @@ h.ev,
               row |-> [ik \in RowRefs(0, c) |-> c.rows[ik[2]]] @@ h.row],
        id |-> 0]

\* Event.set_code(code): row[1] = code for the rows of self, self.code = code
set_code_obj(h, id, code) ==
    LET mine == {h.ev[id].rows[k] : k \in DOMAIN h.ev[id].rows}
    IN [ev |-> [h.ev EXCEPT ![id].code = code],
        row |-> [r \in DOMAIN h.row |->
                    IF r \in mine THEN [h.row[r] EXCEPT ![2] = code] ELSE h.row[r]]]

\* Event.set_time(time): row[0] = time for the rows of self, and the times
\* and the flag of self
set_time_obj(h, id, time) ==
    LET mine == {h.ev[id].rows[k] : k \in DOMAIN h.ev[id].rows}
    IN [ev |-> [h.ev EXCEPT ![id].start_time = time,
                            ![id].max_time = time,
                            ![id].min_time = time,
                            ![id].increasing = TRUE],
        row |-> [r \in DOMAIN h.row |->
                    IF r \in mine THEN [h.row[r] EXCEPT ![1] = time] ELSE h.row[r]]]

\* Event.create_pause_next() on the object id; line is in half lines
create_pause_next_obj(h, id) ==
    LET c == copy_obj(h, id)
        h1 == set_code_obj(c.h, c.id, "oP")
        h2 == set_time_obj(h1, c.id, h1.ev[id].max_time + 1)
    IN [h |-> [h2 EXCEPT !.ev[c.id].line =
                             h2.ev[id].line + 2 * Len(h2.ev[id].rows) + 1],
        id |-> c.id]

\* Leaving twice: prompts entered and left, and pauses, the Segmenter and
\* then the walk of summarize_log
LeaveRows == {<<t, c, XP, "">> : t \in {0, 300}, c \in {"EP", "LP", "oP"}}

NextLeave ==
    \/ \E row \in LeaveRows : Len(input) < MaxLeaveRows /\ ParseNextRow(row)
    \/ Finalize
    \/ SummarizeEvent

SpecLeave == Init /\ [][NextLeave]_vars

\* Copied rows: resumes and relation rows that carry values, the Segmenter
\* and then the walk of summarize_log
CopyRows ==
    {<<t, c, XP, v>> : t \in {0, 500}, c \in {"oR", "rV"}, v \in {"A", "B"}}

NextCopy ==
    \/ \E row \in CopyRows : Len(input) < MaxCopyRows /\ ParseNextRow(row)
    \/ Finalize
    \/ SummarizeEvent

SpecCopy == Init /\ [][NextCopy]_vars

-----------------------------------------------------------------------------
(* Vocabulary of the properties *)

\* a synthetic pause carries a half line number (create_pause_next)
IsSynthetic(e) == e.line % 2 = 1

\* the rows of the non-synthetic Events of a sequence, concatenated
RECURSIVE RealRows(_)
RealRows(evs) ==
    IF evs = <<>> THEN <<>>
    ELSE (IF IsSynthetic(Head(evs)) THEN <<>> ELSE Head(evs).rows)
         \o RealRows(Tail(evs))

\* the emitted Events followed by the run still open, which finalize is to
\* return as the last Event
Runs == events \o cur_event

RowTimes(e) == {e.rows[i][1] : i \in DOMAIN e.rows}
IsMin(m, S) == m \in S /\ \A x \in S : m <= x
IsMax(m, S) == m \in S /\ \A x \in S : m >= x

\* in the sequence evs, a resume is open before position i: a real oR Event
\* precedes position i with no real oP Event after it
ResumeOpenBefore(evs, i) ==
    \E j \in 1..(i - 1) :
        /\ ~IsSynthetic(evs[j]) /\ evs[j].code = "oR"
        /\ \A k \in (j + 1)..(i - 1) : IsSynthetic(evs[k]) \/ evs[k].code # "oP"

\* the positions before i of real Events with a non-relation code
NonRelBefore(evs, i) ==
    {j \in 1..(i - 1) : ~IsSynthetic(evs[j]) /\ evs[j].code \notin relations}

\* a fresh Segmenter run over a row list: parse_next_row for each row at
\* lines 0, 1, ..., then finalize; the Events returned and the exception
RECURSIVE FeedRows(_, _, _, _)
FeedRows(h, rows, line, out) ==
    IF rows = <<>>
    THEN LET f == finalize(h) IN [out |-> out \o f.out, err |-> f.err]
    ELSE LET r == parse_next_row(h, Head(rows), 2 * line)
         IN IF r.err # "none" THEN [out |-> out \o r.out, err |-> r.err]
            ELSE FeedRows(r.h, Tail(rows), line + 1, out \o r.out)

Resegment(rows) == FeedRows(NewHelper, rows, 0, <<>>)

Outline(e) == [rows |-> e.rows, code |-> e.code, min_time |-> e.min_time,
               max_time |-> e.max_time]

-----------------------------------------------------------------------------
(* Properties *)

\* C1: no valid row is lost, duplicated or reordered by segmentation: the
\* rows of the non-synthetic Events emitted so far, followed by the rows of
\* the open run that finalize returns as the last Event, are exactly the
\* valid input rows in input order.
C1_RowsPreserved == pc = "parsing" => RealRows(Runs) = input

\* C2: on a stream with at least one valid row no step of the Segmenter
\* (parse_next_row, finalize) or of the Aggregator ends in an exception.
C2_NeverRaises == Len(input) >= 1 => err = "none"

\* C3: whenever a run with code oR starts while a previous resume is still
\* open (a real oR Event precedes it with no real oP Event since), the
\* Segmenter emits the closed run and then a synthetic oP Event, which
\* stands immediately before the new oR run.
C3_Step ==
    LET row == input'[Len(input')]
    IN (/\ pc = "parsing"
        /\ Len(input') = Len(input) + 1
        /\ cur_event # None
        /\ row[2] = "oR"
        /\ (is_code_change(Helper, row[2]) \/ is_time_split(Helper, row[1]))
        /\ ResumeOpenBefore(Runs, Len(Runs) + 1))
       => (/\ err' = "none"
           /\ Len(events') = Len(events) + 2
           /\ SubSeq(events', 1, Len(events) + 1) = Runs
           /\ IsSynthetic(events'[Len(events')])
           /\ events'[Len(events')].code = "oP"
           /\ cur_event' # None
           /\ The(cur_event').rows = <<row>>)

\* C3, as a property of every step of the Segmenter
C3_ResumeGetsPause == [][C3_Step]_vars

\* The placement itself, over what parse_next_row has emitted (Runs): a real
\* oR run that starts while a resume is open has a synthetic oP right before
\* it, every synthetic pause is followed at once by an oR run, and the rows
\* (0,oR),(500,EP),(1000,oR) give oR, EP, synthetic oP and the open run oR.
C3_Example == <<<<0, "oR", XP, "">>, <<500, "EP", XP, "">>, <<1000, "oR", XP, "">>>>

PauseStandsBeforeResume ==
    /\ \A i \in DOMAIN Runs :
          (~IsSynthetic(Runs[i]) /\ Runs[i].code = "oR"
             /\ ResumeOpenBefore(Runs, i))
          => (i >= 2 /\ IsSynthetic(Runs[i - 1]) /\ Runs[i - 1].code = "oP")
    /\ \A i \in DOMAIN events :
          IsSynthetic(events[i])
          => (i + 1 \in DOMAIN Runs /\ ~IsSynthetic(Runs[i + 1])
                /\ Runs[i + 1].code = "oR")
    /\ input = C3_Example
          => (/\ Len(Runs) = 4
              /\ [i \in 1..4 |-> Runs[i].code] = <<"oR", "EP", "oP", "oR">>
              /\ [i \in 1..4 |-> IsSynthetic(Runs[i])] = <<FALSE, FALSE, TRUE, FALSE>>)

\* C4: every synthetic pause Event has code oP and min_time = max_time =
\* M + 1, where M is the max_time of the most recently closed Event whose
\* code is not a relation code.
C4_PauseTime ==
    \A i \in DOMAIN events :
        IsSynthetic(events[i])
        => /\ events[i].code = "oP"
           /\ NonRelBefore(events, i) # {}
           /\ \E j \in NonRelBefore(events, i) :
                 /\ \A k \in NonRelBefore(events, i) : k <= j
                 /\ events[i].min_time = events[j].max_time + 1
                 /\ events[i].max_time = events[j].max_time + 1

\* a pause synthesised from a run of several rows, across a relation Event
C4_Witness ==
    \E i \in DOMAIN events :
        /\ IsSynthetic(events[i])
        /\ events[i - 1].code \in relations
        /\ \E j \in NonRelBefore(events, i) :
              events[j].max_time # events[j].start_time

\* C5: in the Event sequence emitted, between any two oR Events there is at
\* least one oP Event, real or synthetic.
C5_PauseBetweenResumes ==
    \A i, j \in DOMAIN Runs :
        (i < j /\ Runs[i].code = "oR" /\ Runs[j].code = "oR")
        => \E k \in (i + 1)..(j - 1) : Runs[k].code = "oP"

\* two emitted resumes separated by nothing but a synthetic pause
C5_Witness ==
    \E i, j \in DOMAIN events :
        /\ i < j /\ events[i].code = "oR" /\ events[j].code = "oR"
        /\ \A k \in (i + 1)..(j - 1) :
              events[k].code = "oP" => IsSynthetic(events[k])

\* C6: every emitted Event has min_time <= max_time, and its min_time and
\* max_time are the minimum and the maximum of the timestamps of the rows
\* held in its rows.
C6_BoundsOfRows ==
    \A i \in DOMAIN events :
        /\ events[i].min_time <= events[i].max_time
        /\ IsMin(events[i].min_time, RowTimes(events[i]))
        /\ IsMax(events[i].max_time, RowTimes(events[i]))

\* C7: feeding the rows of any one emitted non-synthetic Event to a fresh
\* Segmenter (parse_next_row for each row, then finalize) yields exactly one
\* Event with the same rows, code, min_time and max_time.
C7_Idempotent ==
    \A i \in DOMAIN events :
        ~IsSynthetic(events[i])
        => LET r == Resegment(events[i].rows)
           IN /\ r.err = "none"
              /\ Len(r.out) = 1
              /\ Outline(r.out[1]) = Outline(events[i])

\* the value of a dict at a key, 0 when the key is absent
Get(d, k) == IF k \in DOMAIN d THEN d[k] ELSE 0

\* C8: when an enter Event (oR or EP, stage QUESTION) is the open enter and
\* a leave Event (oP or LP, stage QUESTION) sharing a tracked prompt p is
\* processed, p's resumed_ms grows by exactly leave.min_time -
\* enter.max_time, whatever the number of rows of the Events.
C8_Step ==
    (/\ n_seen' = n_seen + 1
     /\ state.last_enter # None)
    => LET enter == The(state.last_enter)
           leave == events[n_seen + 1]
       IN (/\ enter.code \in {"oR", "EP"} /\ enter.stage = "QUESTION"
           /\ leave.code \in {"oP", "LP"} /\ leave.stage = "QUESTION")
          => \A p \in tracked_prompts \cap prompt_set(enter) \cap prompt_set(leave) :
                Get(inst'.prompt_resumed, p)
                  = Get(inst.prompt_resumed, p) + (leave.min_time - enter.max_time)

\* C8, as a property of every step of the walk
C8_ScreenTime == [][C8_Step]_vars

\* the rows of the input that lie in emitted Events: those before the first
\* row of the open run
EmittedInput ==
    IF cur_event = None THEN <<>>
    ELSE SubSeq(input, 1, The(cur_event).line \div 2)

\* the values the rows of a list carry at an xpath, in order
RECURSIVE ValuesAt(_, _)
ValuesAt(rows, xpath) ==
    IF rows = <<>> THEN <<>>
    ELSE (IF Head(rows)[3] = xpath THEN <<Head(rows)[4]>> ELSE <<>>)
         \o ValuesAt(Tail(rows), xpath)

\* the number of changes in a sequence of observed values: the first counts
\* iff it is non-empty, a later one iff it differs from the one before it
RECURSIVE LaterChanges(_, _)
LaterChanges(last, vals) ==
    IF vals = <<>> THEN 0
    ELSE (IF Head(vals) # last THEN 1 ELSE 0) + LaterChanges(Head(vals), Tail(vals))

Changes(vals) ==
    IF vals = <<>> THEN 0
    ELSE (IF Head(vals) # "" THEN 1 ELSE 0) + LaterChanges(Head(vals), Tail(vals))

\* C9: once the walk has taken every emitted Event, for every xpath the
\* value_change_count of its prompt is the number of changes in the values of
\* all log rows of those Events carrying the xpath, in log order: every row
\* of every Event counts, whatever its position in the Event.
C9_ValueChanges ==
    (pc = "finalized" /\ n_seen = Len(events))
    => \A xpath \in {XP, XQ} :
          Get(inst.prompt_changes, prompt_of(xpath))
            = Changes(ValuesAt(EmittedInput, xpath))

\* C10: when an oP Event and the oR Event that closes it are both stage
\* QUESTION and share a tracked prompt p, p's short_break_ms grows by the
\* pause duration d = resume.min_time - pause.max_time iff
\* 0 < d < short_break_threshold, and by nothing otherwise; a pause that is
\* not short adds nothing to any prompt.
C10_Step ==
    (/\ n_seen' = n_seen + 1
     /\ state.last_pause # None
     /\ state.last_resume = None)
    => LET pause == The(state.last_pause)
           resume == events[n_seen + 1]
           d == resume.min_time - pause.max_time
       IN (/\ resume.code = "oR"
           /\ pause.stage = "QUESTION" /\ resume.stage = "QUESTION")
          => /\ \A p \in tracked_prompts \cap prompt_set(pause) \cap prompt_set(resume) :
                   Get(inst'.prompt_short_break, p)
                     = Get(inst.prompt_short_break, p)
                         + (IF 0 < d /\ d < 1800000 THEN d ELSE 0)
             /\ ~(0 < d /\ d < 1800000)
                   => inst'.prompt_short_break = inst.prompt_short_break

\* C10, as a property of every step of the walk
C10_ShortBreak == [][C10_Step]_vars

\* the Segmenter state a ParserHelper h reaches on a list of valid rows
\* given at the lines line, line + 1, ..., and the Events returned
RECURSIVE FeedHelper(_, _, _, _)
FeedHelper(h, rows, line, out) ==
    IF rows = <<>> THEN [h |-> h, out |-> out, err |-> "none"]
    ELSE LET r == parse_next_row(h, Head(rows), 2 * line)
         IN IF r.err # "none"
            THEN [h |-> r.h, out |-> out \o r.out, err |-> r.err]
            ELSE FeedHelper(r.h, Tail(rows), line + 1, out \o r.out)

\* an Event without its line number, which counts the skipped lines too
Shape(e) ==
    [rows |-> e.rows, code |-> e.code, start_time |-> e.start_time,
     min_time |-> e.min_time, max_time |-> e.max_time,
     increasing |-> e.increasing, stage |-> e.stage,
     synthetic |-> IsSynthetic(e)]

Shapes(evs) == [i \in DOMAIN evs |-> Shape(evs[i])]

\* the segmentation reached is the one of the valid rows alone
AsIfAbsent ==
    (pc \in {"parsing", "raised"} /\ err # "ValueError")
    => LET f == FeedHelper(NewHelper, input, 0, <<>>)
       IN /\ Shapes(events) = Shapes(f.out)
          /\ Shapes(cur_event) = Shapes(f.h.cur_event)
          /\ Shapes(last_resume) = Shapes(f.h.last_resume)
          /\ Shapes(prev_non_relation) = Shapes(f.h.prev_non_relation)
          /\ err = f.err

C11_Step ==
    LET row == lines'[Len(lines')]
    IN (/\ pc = "parsing"
        /\ Len(lines') = Len(lines) + 1
        /\ Len(row) # 4)
       => /\ UNCHANGED <<input, cur_event, last_resume, prev_non_relation,
                         events, err, pc>>
          /\ \/ lineno = 0 /\ row # <<>> /\ startswith_hash(row[1])
             \/ warnings' =
                   warnings
                   \o (IF lineno = 0
                       THEN <<"No logging version in first line">> ELSE <<>>)
                   \o <<(IF row = <<>> THEN "Empty line: "
                         ELSE "Line with incorrect length: ")
                        \o ToString(lineno + 1)>>

\* C11: a line whose field count is not 4, and that is not the version
\* line at index 0, is skipped with one warning carrying its 1-based line
\* number: no row is handed to the Segmenter, the open run and the Events
\* emitted stay as they are, and at every point the segmentation is the one
\* that the valid rows alone produce (line numbers apart).
C11_BadLengthSkipped == []AsIfAbsent /\ [][C11_Step]_vars

\* a line of 3 fields read between two rows that share one run
C11_Witness ==
    /\ pc = "parsing"
    /\ cur_event # None
    /\ The(cur_event).line = 0
    /\ The(cur_event).max_time = 300
    /\ \E i \in 2..(Len(lines) - 1) : Len(lines[i]) = 3

\* C14: every row handed to the Segmenter has a code of exactly 2 word
\* characters and a non-empty xpath, and a row whose first field is not
\* exactly a 13-digit integer is rejected: it never makes the conversion of
\* the timestamp fail.
C14_OnlyWellFormedRows ==
    /\ err # "ValueError"
    /\ \A i \in DOMAIN input :
          /\ Len(chars(input[i][2])) = 2
          /\ \A k \in 1..2 : IsWord(chars(input[i][2])[k])
          /\ input[i][3] # <<>>

\* the rows of the log grouped into the real run at position i of Runs, in
\* a log of valid rows only: those from the run's line up to the line of
\* the next real run (a row that made parse_next_row raise is in no run)
GroupedRows(i) ==
    LET later == {j \in DOMAIN Runs : j > i /\ ~IsSynthetic(Runs[j])}
        last == IF later # {}
                THEN Runs[CHOOSE j \in later : \A k \in later : j <= k].line \div 2
                ELSE IF pc = "raised" THEN Len(input) - 1
                ELSE Len(input)
    IN SubSeq(input, Runs[i].line \div 2 + 1, last)

\* C12: at every point of the walk, the keys of resumed_ms, short_break_ms,
\* contravened_constraint_count, visit_count and value_change_count are
\* prompts of the tracked prompt list.
C12_KeysTracked ==
    /\ DOMAIN inst.prompt_resumed \subseteq tracked_prompts
    /\ DOMAIN inst.prompt_short_break \subseteq tracked_prompts
    /\ DOMAIN inst.prompt_cc \subseteq tracked_prompts
    /\ DOMAIN inst.prompt_visits \subseteq tracked_prompts
    /\ DOMAIN inst.prompt_changes \subseteq tracked_prompts

\* C13: at every point of the walk, uncaptured_prompts holds no tracked
\* prompt, and it holds the prompt of every row grouped into a processed EP
\* Event of stage QUESTION whose prompt is not tracked.
C13_Uncaptured ==
    /\ inst.uncaptured_prompts \cap tracked_prompts = {}
    /\ \A i \in 1..n_seen :
          (~IsSynthetic(events[i]) /\ events[i].code = "EP"
             /\ events[i].stage = "QUESTION")
          => \A k \in DOMAIN GroupedRows(i) :
                LET prompt == prompt_of(GroupedRows(i)[k][3])
                IN prompt \notin tracked_prompts
                   => prompt \in inst.uncaptured_prompts

C15_Step ==
    (/\ n_seen' = n_seen + 1
     /\ events[n_seen + 1].code = "oR"
     /\ state.last_pause # None
     /\ state.last_resume = None)
    => LET event == events[n_seen + 1]
           paused_diff == event.min_time - The(state.last_pause).max_time
       IN /\ inst'.paused = inst.paused + (IF paused_diff > 0 THEN paused_diff ELSE 0)
          /\ inst'.short_break
               = inst.short_break
                   + (IF 0 < paused_diff /\ paused_diff < 1800000
                      THEN paused_diff ELSE 0)
          /\ state'.last_pause = None
          /\ state'.last_resume = Some(event)

\* C15: when an oR Event is processed while a pause is open and no resume
\* is open, paused_ms grows by paused_diff = event.min_time -
\* open_pause.max_time if that is positive and by 0 otherwise, short_break_ms
\* grows by paused_diff iff 0 < paused_diff < 1,800,000, and afterwards no
\* pause is open and the open resume is this Event.
C15_PausedTime == [][C15_Step]_vars

\* the walk of summarize_log over a list of Events
RECURSIVE Walk(_, _, _)
Walk(i, st, evs) ==
    IF evs = <<>> THEN [inst |-> i, st |-> st]
    ELSE LET r == summarize_event(i, st, Head(evs))
         IN Walk(r.inst, r.st, Tail(evs))

C17_NoSingleLog ==
    (pc # "idle" /\ txt # 1)
    => /\ pc = "skipped"
       /\ err = "none"
       /\ events = <<>>
       /\ inst.log_version = None
       /\ inst.resumed = 0 /\ inst.paused = 0 /\ inst.short_break = 0
       /\ inst.save_count = 0 /\ inst.enter_count = 0
       /\ inst.relation_self_destruct = 0
       /\ inst.prompt_resumed = <<>> /\ inst.prompt_short_break = <<>>
       /\ inst.prompt_cc = <<>> /\ inst.prompt_visits = <<>>
       /\ inst.prompt_changes = <<>>
       /\ inst.uncaptured_prompts = {}

\* an instance with two log files, met after an analysed instance
C17_Witness == pc = "skipped" /\ txt = 2 /\ COUNT = 2

\* the threshold that applies to a run: by the code of the run
Threshold(e) ==
    IF e.code \in {"rC", "rV", "rS"} THEN relation_threshold ELSE event_threshold

\* the Events of evs are then the prefix of the Events of evs2
IsPrefix(evs, evs2) ==
    Len(evs) <= Len(evs2) /\ SubSeq(evs2, 1, Len(evs)) = evs

C18_Step ==
    LET row == input'[Len(input')]
        run == The(cur_event)
        code_change == row[2] # run.code
        time_split == row[1] - run.start_time > Threshold(run)
    IN (/\ pc = "parsing"
        /\ Len(input') = Len(input) + 1
        /\ cur_event # None)
       => /\ err' = "none"
          /\ cur_event' # None
          /\ (code_change \/ time_split)
             => /\ IsPrefix(events \o cur_event, events')
                /\ The(cur_event').line = 2 * lineno
                /\ The(cur_event').code = row[2]
                /\ The(cur_event').start_time = row[1]
          /\ ~(code_change \/ time_split)
             => /\ events' = events
                /\ The(cur_event').line = run.line
                /\ The(cur_event').code = row[2]

\* C18: every run is maximal.  A row of another code than the open run, or
\* one arriving more than the applicable threshold after the run's start
\* time, closes the run into an Event and starts a new run, so a next real
\* Event of the same code starts more than the threshold after the start of
\* the one before; any other row joins the open run, so all the rows of a
\* run carry its code.
C18_MaximalRun == [][C18_Step]_vars

\* C19: for every row grouped into an emitted real Event, the row's
\* timestamp minus the timestamp of the Event's first row is at most the
\* applicable threshold: the relation threshold when the code of the run is
\* one of rC, rV, rS, and the event threshold otherwise.
C19_WithinThreshold ==
    \A i \in DOMAIN events :
        ~IsSynthetic(events[i])
        => LET rows == GroupedRows(i)
           IN /\ rows # <<>>
              /\ rows[1] = events[i].rows[1]
              /\ \A k \in DOMAIN rows :
                    /\ rows[k][2] = events[i].code
                    /\ rows[k][1] - rows[1][1]
                         <= (IF events[i].code \in {"rC", "rV", "rS"}
                             THEN relation_threshold ELSE event_threshold)

\* an emitted relation Event holding a row at the relation threshold, later
\* than the event threshold allows, after an emitted EP Event
C19_Witness ==
    \E i \in DOMAIN events :
        /\ i > 1
        /\ events[i - 1].code = "EP"
        /\ events[i].code = "rV"
        /\ \E k \in DOMAIN GroupedRows(i) :
              GroupedRows(i)[k][1] - events[i].start_time = relation_threshold

C20_Step ==
    LET row == input'[Len(input')]
        run == The(cur_event)
    IN (/\ pc = "parsing"
        /\ Len(input') = Len(input) + 1
        /\ cur_event # None
        /\ row[2] = run.code
        /\ row[1] - run.start_time > Threshold(run))
       => /\ err' = "none"
          /\ IsPrefix(events \o cur_event, events')
          /\ cur_event' # None
          /\ The(cur_event').line = 2 * lineno
          /\ LET logged == SubSeq(warnings', Len(warnings) + 1, Len(warnings'))
             IN (\E k \in DOMAIN logged : logged[k] = "event split on time threshold")
                <=> run.code \notin {"rV", "rS", "SF", "FF", "LF"}

\* C20: a row of the open run's code that arrives more than the threshold
\* after the run's start time closes the run and starts a new one, whether
\* or not the code is repeatable, with no exception; the warning 'event
\* split on time threshold' is logged exactly when the code is outside
\* rV, rS, SF, FF, LF.
C20_SplitOnTime == [][C20_Step]_vars

\* C21: at end of stream finalize returns the still-open run as the last
\* real Event, followed by one synthetic pause iff a resume is open at that
\* point (the final run is itself an oR, or a real oR Event was closed with
\* no real oP Event closed since), and by nothing otherwise.
C21_Step ==
    (pc = "parsing" /\ pc' = "finalized" /\ cur_event # None)
    => /\ err' = "none"
       /\ Len(events') >= Len(Runs)
       /\ SubSeq(events', 1, Len(Runs)) = Runs
       /\ IF ResumeOpenBefore(Runs, Len(Runs) + 1)
          THEN /\ Len(events') = Len(Runs) + 1
               /\ IsSynthetic(events'[Len(events')])
               /\ events'[Len(events')].code = "oP"
          ELSE Len(events') = Len(Runs)

\* C21, as a property of every step of the Segmenter
C21_FinalRun == [][C21_Step]_vars

\* the log ends with a session still open: an oR row with no later oP row
SessionOpenAtEnd ==
    \E k \in DOMAIN input :
        /\ input[k][2] = "oR"
        /\ \A m \in (k + 1)..Len(input) : input[m][2] # "oP"

\* C22: when the log ends with a session still open, the analysis ends
\* without an error and, after the Aggregator has consumed the whole Event
\* sequence produced for the log, open_resume is still set and resumed_ms
\* is what it was when the last oR Event had been processed.
C22_OpenSessionUnresolved ==
    (pc = "finalized" /\ n_seen = Len(events) /\ SessionOpenAtEnd)
    => /\ err = "none"
       /\ state.last_resume # None
       /\ \E j \in DOMAIN events :
             /\ events[j].code = "oR"
             /\ \A k \in (j + 1)..Len(events) : events[k].code \notin {"oR", "oP"}
             /\ inst.resumed =
                   Walk(NewInstance, NewLogParseState, SubSeq(events, 1, j)).inst.resumed

\* the timestamps of a row list are non-decreasing, each row compared with
\* the row immediately before it
NonDecreasing(rows) ==
    \A k \in 2..Len(rows) : rows[k][1] >= rows[k - 1][1]

\* C23: for every emitted Event, increasing is true iff the timestamps of
\* the rows of its run (the rows of the log grouped into it), in row order,
\* are non-decreasing.
C23_Increasing ==
    \A i \in DOMAIN events :
        ~IsSynthetic(events[i])
        => (events[i].increasing <=> NonDecreasing(GroupedRows(i)))

\* C24: the stage of an emitted Event is RELATION if its code is a relation
\* code, otherwise BOOKEND if its code is a bookend code or the xpath of any
\* of the rows of its run is a bookend xpath, otherwise QUESTION: the
\* xpaths of all the rows count, not only the first row's.
C24_StageOfAllRows ==
    \A i \in DOMAIN events :
        ~IsSynthetic(events[i])
        => LET rows == GroupedRows(i)
           IN events[i].stage =
                 IF events[i].code \in relations THEN "RELATION"
                 ELSE IF \/ events[i].code \in bookends
                         \/ \E k \in DOMAIN rows : rows[k][3] \in bookend_xpaths
                      THEN "BOOKEND"
                      ELSE "QUESTION"

\* the diagnostics a step has added to warnings
NewWarnings == SubSeq(warnings', Len(warnings) + 1, Len(warnings'))
Logged(msg, ws) == \E k \in DOMAIN ws : ws[k] = msg

\* C25: after the Aggregator processes an Event, last_seen_event
\* (state.prev_event) is that Event; and when an Event is processed while
\* the Event processed before it is strictly after it (its min_time is
\* greater than the Event's max_time) and a resume is open, an 'out of
\* order events' diagnostic is emitted.
C25_Step ==
    (n_seen' = n_seen + 1)
    => LET event == events[n_seen + 1]
       IN /\ state'.prev_event = Some(event)
          /\ (/\ n_seen >= 1
              /\ events[n_seen].min_time > event.max_time
              /\ state.last_resume # None)
             => Logged("Out of order events", NewWarnings)

\* C25, as a property of every step of the walk
C25_LastSeen == [][C25_Step]_vars

\* C26: when the Aggregator processes an oP Event while a resume is open
\* and no pause is open, resumed_ms grows by the resumed difference between
\* the pause and the open resume (the Event difference pause - resume) if
\* it is positive and by 0 otherwise, open_pause becomes this Event,
\* open_resume is cleared, and a 'large resumed time' warning is logged iff
\* the difference exceeds 7,200,000 ms.
C26_Step ==
    (/\ n_seen' = n_seen + 1
     /\ events[n_seen + 1].code = "oP"
     /\ state.last_resume # None
     /\ state.last_pause = None)
    => LET event == events[n_seen + 1]
           d == EventSub(event, The(state.last_resume))
       IN /\ inst'.resumed = inst.resumed + (IF d > 0 THEN d ELSE 0)
          /\ state'.last_pause = Some(event)
          /\ state'.last_resume = None
          /\ Logged("Large resumed time (>2hr)", NewWarnings) <=> d > 7200000

SessionWarnings ==
    {"Still oR, oR without oP", "Before first oR, found oP",
     "Large resumed time (>2hr)", "oP, oP without oR"}
NewSessionWarnings ==
    SelectSeq(NewWarnings, LAMBDA w : w \in SessionWarnings)

\* C27: an oP Event processed when neither a resume nor a pause is open
\* only produces the 'pause before first resume' warning, and an oP Event
\* processed while a pause is already open only produces the 'pause, pause
\* without resume' warning; in both cases resumed_ms, paused_ms,
\* short_break_ms, open_resume and open_pause are unchanged.
C27_Step ==
    (/\ n_seen' = n_seen + 1
     /\ events[n_seen + 1].code = "oP"
     /\ state.last_resume = None)
    => /\ inst'.resumed = inst.resumed
       /\ inst'.paused = inst.paused
       /\ inst'.short_break = inst.short_break
       /\ state'.last_resume = state.last_resume
       /\ state'.last_pause = state.last_pause
       /\ NewSessionWarnings =
             IF state.last_pause = None
             THEN <<"Before first oR, found oP">>
             ELSE <<"oP, oP without oR">>

\* C27, as a property of every step of the walk
C27_PauseOutOfPlace == [][C27_Step]_vars

\* a pause found while a pause is open, after time has been counted
C27_Witness ==
    /\ Logged("oP, oP without oR", warnings)
    /\ state.last_pause # None
    /\ inst.resumed > 0

\* the positions of the Events the walk has processed
Processed == 1..n_seen

\* the rows with prompt p of the processed EP Events of stage QUESTION, as
\* pairs of the Event's position and the row's position in its run
VisitRows(p) ==
    {ik \in Processed \X (1..Len(input)) :
        /\ events[ik[1]].code = "EP"
        /\ events[ik[1]].stage = "QUESTION"
        /\ ik[2] \in DOMAIN GroupedRows(ik[1])
        /\ prompt_of(GroupedRows(ik[1])[ik[2]][3]) = p}

\* C28: after any Event sequence, enter_count is the number of processed EP
\* Events of stage QUESTION, save_count the number of processed SF Events,
\* relation_self_destruct_count the number of processed rS Events, and for
\* every tracked prompt p visit_count[p] is the number of rows with prompt p
\* across the processed EP Events of stage QUESTION.
C28_Counts ==
    /\ inst.enter_count =
          Cardinality({i \in Processed :
                          events[i].code = "EP" /\ events[i].stage = "QUESTION"})
    /\ inst.save_count = Cardinality({i \in Processed : events[i].code = "SF"})
    /\ inst.relation_self_destruct =
          Cardinality({i \in Processed : events[i].code = "rS"})
    /\ \A p \in tracked_prompts :
          Get(inst.prompt_visits, p) = Cardinality(VisitRows(p))

\* the Events update_previous has closed: the Events emitted and, when the
\* closing step has raised after update_previous, the run it was closing
ClosedEvents == IF pc = "raised" THEN Runs ELSE events
ClosedNonRel ==
    {j \in DOMAIN ClosedEvents :
        ~IsSynthetic(ClosedEvents[j]) /\ ClosedEvents[j].code \notin relations}
FirstClosedNonRel == CHOOSE j \in ClosedNonRel : \A k \in ClosedNonRel : j <= k
LastClosedNonRel == CHOOSE j \in ClosedNonRel : \A k \in ClosedNonRel : j >= k
FirstNotResumeCount ==
    Cardinality({k \in DOMAIN warnings :
                    warnings[k] = "First non-relation event not oR"})

C30_Step ==
    (pc = "parsing" /\ Len(events') = Len(events) + 2)
    => LET src == CHOOSE j \in DOMAIN Runs : Runs[j] = The(prev_non_relation')
           r == create_pause_next_obj(Objects(Runs), src)
       IN /\ \A i \in DOMAIN Runs :
                Deref(r.h, i) = Runs[i] /\ events'[i] = Runs[i]
          /\ The(prev_non_relation') = Deref(r.h, src)
          /\ events'[Len(events')] = Deref(r.h, r.id)

\* C30, as a property of every step of the Segmenter
C30_SourceUnchanged == [][C30_Step]_vars

\* a pause has been synthesised from an Event emitted before the Event the
\* step closed
C30_Witness ==
    \E i \in DOMAIN events :
        /\ IsSynthetic(events[i])
        /\ i >= 3
        /\ events[i - 1].code \in relations
        /\ prev_non_relation # None
        /\ The(prev_non_relation) \in {events[j] : j \in 1..(i - 2)}

\* C31: under the configuration with which the Aggregator runs the
\* Segmenter, non-relation runs are split at an event threshold of 400 ms
\* and relation runs at a relation threshold of 60,000 ms: a row of the
\* open run's code at most 400 ms (60,000 ms for rC, rV, rS) after the
\* run's start time joins the run.
C31_Step ==
    LET row == input'[Len(input')]
        run == The(cur_event)
    IN (/\ pc = "parsing"
        /\ Len(input') = Len(input) + 1
        /\ cur_event # None
        /\ row[2] = run.code
        /\ row[1] - run.start_time
              <= (IF run.code \in {"rC", "rV", "rS"} THEN 60000 ELSE 400))
       => /\ err' = "none"
          /\ events' = events
          /\ cur_event' # None
          /\ The(cur_event').line = run.line

\* C31, as a property of every step of the Segmenter
C31_DefaultThresholds == [][C31_Step]_vars

\* C31, amended: under the configuration with which the Aggregator runs
\* the Segmenter, non-relation runs are split at an event threshold of
\* 400 ms and relation runs at a relation threshold of 10,000 ms: a row of
\* the open run's code joins the run iff it arrives at most 400 ms
\* (10,000 ms for rC, rV, rS) after the run's start time.
C31_AmendedStep ==
    LET row == input'[Len(input')]
        run == The(cur_event)
    IN (/\ pc = "parsing"
        /\ Len(input') = Len(input) + 1
        /\ cur_event # None
        /\ row[2] = run.code)
       => ((row[1] - run.start_time
               <= (IF run.code \in {"rC", "rV", "rS"} THEN 10000 ELSE 400))
           <=> (/\ pc' = "parsing"
                /\ events' = events
                /\ cur_event' # None
                /\ The(cur_event').line = run.line))

C31_ThresholdsOfInstance == [][C31_AmendedStep]_vars

\* an EP run holding a row 400 ms after its start and an rV run holding a
\* row 10,000 ms after its start
C31_Witness ==
    /\ \E i \in DOMAIN Runs :
          Runs[i].code = "EP" /\ Runs[i].max_time - Runs[i].start_time = 400
    /\ \E i \in DOMAIN Runs :
          Runs[i].code = "rV" /\ Runs[i].max_time - Runs[i].start_time = 10000

\* C32: when the timestamps of the valid input rows are non-decreasing, no
\* emitted Event, synthetic pauses included, is strictly after the Event
\* that follows it: never prev.min_time > next.max_time.
C32_InOrder ==
    NonDecreasing(input)
    => \A i \in 1..(Len(events) - 1) :
          ~EventGt(events[i], events[i + 1])

\* C33: at every point of the Aggregator's walk, open_resume
\* (state.last_resume) and open_pause (state.last_pause) are not both set.
C33_OneOpen == ~(state.last_resume # None /\ state.last_pause # None)

\* a resume is open that closed a pause, which had closed a resume
C33_Witness ==
    /\ n_seen >= 3
    /\ state.last_resume # None
    /\ inst.resumed > 0
    /\ inst.paused > 0

\* C34: after every Event processed by the Aggregator, resumed_ms,
\* paused_ms and short_break_ms are non-negative and not smaller than
\* before that Event, and short_break_ms <= paused_ms.
C34_Totals ==
    /\ inst.resumed >= 0
    /\ inst.paused >= 0
    /\ inst.short_break >= 0
    /\ inst.short_break <= inst.paused

C34_Step ==
    (n_seen' = n_seen + 1)
    => /\ inst'.resumed >= inst.resumed
       /\ inst'.paused >= inst.paused
       /\ inst'.short_break >= inst.short_break

C34_TotalsGrow == []C34_Totals /\ [][C34_Step]_vars

\* time has been counted as resumed and as a pause too long for a short
\* break
C34_Witness ==
    /\ inst.resumed > 0
    /\ inst.paused > inst.short_break

\* C35: for a row stream with no valid data row (only a version line, only
\* invalid lines, or nothing at all) the Segmenter returns an empty Event
\* sequence without error and every metric stays at its default.
C35_NoValidRow ==
    (pc = "finalized" /\ input = <<>>)
    => /\ err = "none"
       /\ events = <<>>
       /\ [inst EXCEPT !.log_version = None] = NewInstance

\* C36: each QUESTION-stage enter Event (oR or EP) is charged to per-prompt
\* resumed_ms at most once: per-prompt resumed_ms changes only when a
\* QUESTION-stage leave Event (oP or LP) is processed with an enter open,
\* such a leave Event clears the open enter, a leave Event processed with
\* no open enter changes no prompt's resumed_ms, and an enter is opened
\* only by processing that enter Event.
C36_Step ==
    (n_seen' = n_seen + 1)
    => LET event == events[n_seen + 1]
           leave == event.code \in {"oP", "LP"} /\ event.stage = "QUESTION"
       IN /\ leave => state'.last_enter = None
          /\ (leave /\ state.last_enter = None)
                => inst'.prompt_resumed = inst.prompt_resumed
          /\ inst'.prompt_resumed # inst.prompt_resumed
                => (leave /\ state.last_enter # None)
          /\ (state'.last_enter # None /\ state'.last_enter # state.last_enter)
                => (/\ event.code \in {"oR", "EP"}
                    /\ state'.last_enter = Some(event))

\* C36, as a property of every step of the walk
C36_ChargedOnce == [][C36_Step]_vars

\* an enter has been charged and a second leave Event processed after it
\* with no enter open
C36_Witness ==
    /\ n_seen >= 3
    /\ events[n_seen - 2].code = "EP"
    /\ events[n_seen - 1].code \in {"oP", "LP"}
    /\ events[n_seen].code \in {"oP", "LP"}
    /\ Get(inst.prompt_resumed, Str("p")) > 0
    /\ state.last_enter = None

\* C37: processing a synthetic pause Event in the Aggregator never changes
\* any prompt's value_change_count (prompt_changes), also when relation
\* Events were emitted between the source Event and the synthetic pause.
C37_Step ==
    (n_seen' = n_seen + 1 /\ IsSynthetic(events[n_seen + 1]))
    => inst'.prompt_changes = inst.prompt_changes

\* C37, as a property of every step of the walk
C37_PauseChangesNothing == [][C37_Step]_vars

\* C38: in every reachable Segmenter state, last_resume being set implies
\* prev_non_relation is set, so the pause synthesis of check_resume, which
\* runs on the state update_previous leaves, always has a source Event to
\* copy: it never fails on an absent one, whatever the code of the next row.
C38_SourceIsSet ==
    /\ last_resume # None => prev_non_relation # None
    /\ cur_event # None
          => LET up == update_previous(Helper).h
             IN /\ up.last_resume # None => up.prev_non_relation # None
                /\ check_resume(up, "oR").err = "none"
    /\ err # "AttributeError" \/ is_time_split(Helper, input[Len(input)][1])

\* a log that starts with a relation row, in which a pause has been
\* synthesised and a resume is open
C38_Witness ==
    /\ last_resume # None
    /\ Len(events) >= 2
    /\ events[1].code \in relations
    /\ \E i \in DOMAIN events : IsSynthetic(events[i])

=============================================================================
